---------------------------- MODULE Spec2Model ----------------------------
(***************************************************************************)
(* sol-bot (src/bot.js): an order-placement agent for an OpenBook v2       *)
(* market.  startBot runs one async chain: a balance query, then forever   *)
(* buySol, a 6000 ms pause, sellSol, a 6000 ms pause.  Each phase retries  *)
(* loadMarket + placeLimitOrder up to `retries` times.  loadMarket resolves*)
(* the market address once through findMarkets and keeps it in the module  *)
(* variable MARKET_ADDRESS.                                                *)
(*                                                                         *)
(* Every `await` on the ledger is two steps: Issue (the call goes out,     *)
(* inflight = 1) and the step that consumes its result.  The ledger is the *)
(* environment: what it holds is `ledger` and `ataExists`, and when         *)
(* `faults` is TRUE any call may throw.                                    *)
(***************************************************************************)
EXTENDS Integers, Sequences, FiniteSets, TLC

VARIABLES
    pc,              \* position of the async chain started by startBot()
    inflight,        \* ledger calls issued and not yet returned
    cycle,           \* startBot: let cycle (saturates at MaxCycle, log only)
    phase,           \* "none" | "buy" | "sell": the phase function last called
    i,               \* buySol / sellSol: loop index
    MARKET_ADDRESS,  \* module variable, NoAddress or an address
    market,          \* loadMarket's result in this attempt: NoMarket or [baseMint, quoteMint]
    possibleSizes,   \* findMarkets: the size-probe list
    allMarkets,      \* findMarkets: accumulated candidates (addresses)
    sizeIdx,         \* findMarkets: position in possibleSizes
    probeIdx,        \* findMarkets: the decode loop's i, 1-based
    probed,          \* findMarkets: outcome of Market.load per probed candidate
    fmResult,        \* how the last findMarkets call ended
    caller,          \* who called findMarkets: "loadMarket" or "harness"
    payerMint,       \* placeLimitOrder: const payerMint
    ledger,          \* environment: program accounts, address = index
    ataExists,       \* environment: which associated token accounts exist
    faults,          \* environment: may ledger calls throw?
    waited,          \* ms of pacing delay elapsed since the last attempt ended
    attempts,        \* attempts begun in the current phase
    orders,          \* placeOrder transactions issued in the current phase
    creates,         \* account-creation transactions issued in the current phase
    resolves,        \* findMarkets runs begun in the current phase
    sigs,            \* order signatures returned in the current phase
    firstSig,        \* attempt number of the first signature, 0 if none
    open,            \* phases entered and not yet returned
    lastEnded,       \* the phase that returned last, "none" before the first
    ataLast,         \* per mint: how the previous getOrCreate call ended
    prevCreates,     \* per mint: creation transactions the previous call issued
    curCreates,      \* creation transactions the current getOrCreate call issued
    lastError,       \* err.message of the error a catch block logged last
    accountInfo,     \* loadMarket: const accountInfo in this attempt
    scanLog,         \* findMarkets: the scans that returned or threw, in order
    idAge,           \* ms since Date.now() gave the last clientOrderId (-1: none yet)
    exitPc           \* where the chain stood when process.exit ran, "none" while alive

vars == << pc, inflight, cycle, phase, i, MARKET_ADDRESS, market, possibleSizes,
           allMarkets, sizeIdx, probeIdx, probed, fmResult, caller, payerMint,
           ledger, ataExists, faults, waited, attempts, orders, creates,
           resolves, sigs, firstSig, open, lastEnded, ataLast, prevCreates,
           curCreates, lastError, accountInfo, scanLog, idAge, exitPc >>

\* let MARKET_ADDRESS = null: addresses are 1..Len(ledger), 0 is null
NoAddress == 0
\* no Market object (null, or Market.load threw)
NoMarket == [baseMint |-> "none", quoteMint |-> "none"]

\* ------------------------------------------------------------ constants
BASE_MINT == "SOL"
QUOTE_MINT == "USDC"
OTHER_MINT == "OTHER"
Mints == {BASE_MINT, QUOTE_MINT}

\* for (let i = 0; i < retries; i++), retries = 3
retries == 3
\* Math.min(allMarkets.length, 20)
PROBE_CAP == 20
\* setTimeout(r, 6000)
PACE_MS == 6000
\* const possibleSizes = [760, 776, 808, 824, 856]
PossibleSizes == <<760, 776, 808, 824, 856>>

\* ------------------------------------------------------------ bounds
\* the clock advances in steps of TickMs while a timer is pending
TickMs == 2000
\* the cycle number is kept up to MaxCycle
MaxCycle == 2
\* program accounts in the resolver fixtures
MaxAccounts == 22

Min(a, b) == IF a < b THEN a ELSE b

\* ------------------------------------------------------------ the ledger
\* An account of the program: its data size and what Market.load makes of it:
\* "bad" (throws), "other" (another pair), "match" (SOL/USDC), "reversed" (USDC/SOL).
Kinds == {"bad", "other", "match", "reversed"}

\* Market.load(connection, address): the Market object the account decodes to
MarketOf(kind) ==
    CASE kind = "match"    -> [baseMint |-> BASE_MINT, quoteMint |-> QUOTE_MINT]
      [] kind = "reversed" -> [baseMint |-> QUOTE_MINT, quoteMint |-> BASE_MINT]
      [] kind = "other"    -> [baseMint |-> OTHER_MINT, quoteMint |-> QUOTE_MINT]
      [] OTHER             -> NoMarket

Addresses == [a \in 1..Len(ledger) |-> a]

\* connection.getProgramAccounts(PROGRAM_ID, {filters: [{dataSize: size}]})
AccountsOfSize(size) == SelectSeq(Addresses, LAMBDA a : ledger[a].size = size)

\* connection.getProgramAccounts(PROGRAM_ID, {commitment})
AllAccounts == Addresses

\* what a ledger call may do: return, or (faults) throw
Outcomes == IF faults THEN {TRUE, FALSE} ELSE {TRUE}

\* ------------------------------------------------------------ pure parts of the code
\* a match that accepts the pair in one orientation only
IsTargetPairForward(m) == m.baseMint = BASE_MINT /\ m.quoteMint = QUOTE_MINT

\* market.baseMint.equals(BASE_MINT) && market.quoteMint.equals(QUOTE_MINT), or reversed
IsTargetPair(m) ==
    \/ m.baseMint = BASE_MINT /\ m.quoteMint = QUOTE_MINT
    \/ m.baseMint = QUOTE_MINT /\ m.quoteMint = BASE_MINT

\* a probe loop without the cap
InProbeRangeNoCap(k, all) == k <= Len(all)

\* i < Math.min(allMarkets.length, 20), with the 1-based index k = i + 1
InProbeRange(k, all) == k <= Min(Len(all), PROBE_CAP)

\* a loadMarket that resolves on every call
NeedsResolveAlways(addr) == TRUE

\* if (!MARKET_ADDRESS)
NeedsResolve(addr) == addr = NoAddress

\* a loop that runs once more: i <= retries
InRetryRangeOffByOne(idx) == idx <= retries

\* for (let i = 0; i < retries; i++)
InRetryRange(idx) == idx < retries

\* an existence check that takes every account for existing
AccountInfoAssumed(m) == TRUE

\* an existence check that never finds the account
AccountInfoIgnored(m) == FALSE

\* const accountInfo = await connection.getAccountInfo(associatedTokenAddress);
\* if (accountInfo): the read returned, the account is there or it is not
AccountInfoPresent(m) == ataExists[m]

\* const payerMint = side === 'buy' ? QUOTE_MINT : BASE_MINT
PayerMint(side) == IF side = "buy" THEN QUOTE_MINT ELSE BASE_MINT

\* a decode failure that ends the search
DecodeFailedStepThrow == "throw"

\* catch (err) { console.log('Not a valid market'); continue; }
DecodeFailedStep == "continue"

\* a catch block that rethrows once the last retry failed
CatchStepRethrow(idx) ==
    IF idx = retries - 1 THEN [pc |-> "crashed", i |-> idx]
    ELSE [pc |-> "attempt", i |-> idx + 1]

\* the catch block of buySol / sellSol: log, and the for loop goes on with i++
CatchStep(idx) == [pc |-> "attempt", i |-> idx + 1]

\* a success branch without its return: the loop goes on
OrderSentStepNoReturn(idx) == [pc |-> "attempt", i |-> idx + 1]

\* console.log('Buy order sent'); return;
OrderSentStep(idx) == [pc |-> "phase_ret", i |-> idx]

\* a provisioner that sends the creation transaction again when it failed
CreateFailedStepResend == "resend"

\* a rejected creation transaction propagates out of getOrCreateAssociatedTokenAccount
CreateFailedStep == "throw"

\* a loop body that calls buySol after each pause
NextCallBuyAgain(ph) == "cycle"

\* startBot's loop body: buySol, pause, sellSol, pause
NextCall(ph) == IF ph = "buy" THEN "sell_call" ELSE "cycle"

\* a timer with no delay: setTimeout(r)
TimerDueAtOnce(w) == TRUE

\* setTimeout(r, 6000): the callback runs once 6000 ms have passed
TimerDue(w) == w >= PACE_MS

\* findMarkets, per size: catch (err) { console.log(...); }, the loop goes on
ScanFailedStepThrow == "throw"

ScanFailedStep == "continue"

\* if (allMarkets.length === 0) the scan without filters is made
NeedsFallbackAlways(all) == TRUE

NeedsFallback(all) == Len(all) = 0

\* startBot: catch (err) { console.error('Connection error:', ...); return; }
BalanceFailedStepFallThrough == "cycle"

BalanceFailedStep == "returned"

\* if (!accountInfo) throw new Error('Market account not found on chain!')
InfoMissingStepLoad == "load"

InfoMissingStep == "throw"

\* loadMarket's catch block logs and rethrows: MARKET_ADDRESS is left as it is
CacheOnLoadFailureCleared(addr) == NoAddress

CacheOnLoadFailure(addr) == addr

\* Date.now() has millisecond resolution: once a millisecond boundary has passed
\* since the last identifier, the next reading is a larger number
Aged(a) == IF a < 0 THEN a ELSE 1

\* ------------------------------------------------------------ variable groups
fmVars == << allMarkets, sizeIdx, probeIdx, probed, fmResult, scanLog >>
lmVars == << market, accountInfo >>
\* what no step of the async chain writes
envVars == << ledger, faults, possibleSizes, caller, exitPc >>
phaseCnt == << attempts, orders, creates, resolves, sigs, firstSig >>
phaseHist == << open, lastEnded >>
ataHist == << ataLast, prevCreates, curCreates >>

NoResult == [status |-> "none", address |-> NoAddress]

\* ------------------------------------------------------------ initial states
\* ledgers of the whole-program specification: one account per probed size
\* (another pair, SOL/USDC, undecodable); accounts of no probed size, the
\* second a reversed market; and a program with no accounts
MainLedgers ==
    { << [size |-> 760, kind |-> "other"], [size |-> 776, kind |-> "match"],
         [size |-> 808, kind |-> "bad"] >>,
      << [size |-> 900, kind |-> "bad"], [size |-> 900, kind |-> "reversed"] >>,
      << >> }

\* the state of the module after its top-level code ran, up to startBot()'s first await
InitProgram ==
    /\ inflight = 0
    /\ cycle = 1
    /\ phase = "none"
    /\ i = 0
    /\ MARKET_ADDRESS = NoAddress
    /\ market = NoMarket
    /\ allMarkets = << >>
    /\ probeIdx = 0
    /\ probed = << >>
    /\ fmResult = NoResult
    /\ payerMint = "none"
    /\ waited = 0
    /\ attempts = 0 /\ orders = 0 /\ creates = 0 /\ resolves = 0
    /\ sigs = 0 /\ firstSig = 0
    /\ open = {}
    /\ lastEnded = "none"
    /\ ataLast = [m \in Mints |-> "none"]
    /\ prevCreates = [m \in Mints |-> 0]
    /\ curCreates = 0
    /\ lastError = "none"
    /\ accountInfo = "none"
    /\ scanLog = << >>
    /\ idAge = -1
    /\ exitPc = "none"

Init ==
    /\ InitProgram
    /\ pc = "balance"
    /\ sizeIdx = 0
    /\ caller = "loadMarket"
    /\ possibleSizes = PossibleSizes
    /\ ledger \in MainLedgers
    /\ ataExists \in [Mints -> BOOLEAN]
    /\ faults = TRUE

\* ------------------------------------------------------------ awaits
LedgerPcs == { "balance", "fm_scan", "fm_fallback", "fm_probe", "lm_info",
               "lm_load", "ata_info", "ata_create", "place" }

\* the call at pc goes out to the ledger; the chain is suspended until it returns
Issue ==
    /\ pc \in LedgerPcs
    /\ inflight = 0
    /\ inflight' = 1
    /\ creates' = IF pc = "ata_create" THEN creates + 1 ELSE creates
    /\ curCreates' = IF pc = "ata_create" THEN curCreates + 1 ELSE curCreates
    /\ orders' = IF pc = "place" THEN orders + 1 ELSE orders
    /\ idAge' = IF pc = "place" THEN 0 ELSE idAge
    /\ UNCHANGED << pc, cycle, phase, i, MARKET_ADDRESS, lmVars, fmVars, envVars,
                    payerMint, ataExists, waited, attempts, resolves, sigs,
                    firstSig, phaseHist, ataLast, prevCreates, lastError >>

Returned(p) == pc = p /\ inflight = 1 /\ inflight' = 0

\* an error reaches the catch block of buySol / sellSol
ThrowToPhase(msg) ==
    /\ pc' = CatchStep(i).pc
    /\ i' = CatchStep(i).i
    /\ waited' = 0
    /\ lastError' = msg

Goto(p) == pc' = p /\ UNCHANGED << i, waited, lastError >>

\* ------------------------------------------------------------ startBot
\* const balance = await connection.getBalance(...); on error: return
startBot_getBalance ==
    /\ Returned("balance")
    /\ \E ok \in Outcomes :
         IF ok
         THEN Goto("cycle")
         ELSE /\ pc' = BalanceFailedStep
              /\ lastError' = "BalanceError"
              /\ UNCHANGED << i, waited >>
    /\ UNCHANGED << cycle, phase, MARKET_ADDRESS, lmVars, idAge, fmVars, envVars, payerMint,
                    ataExists, phaseCnt, phaseHist, ataHist >>

\* buySol / sellSol is called: console.log('Attempting ...'), let i = 0
EnterPhase(ph) ==
    /\ phase' = ph
    /\ i' = 0
    /\ pc' = "attempt"
    /\ attempts' = 0 /\ orders' = 0 /\ creates' = 0 /\ resolves' = 0
    /\ sigs' = 0 /\ firstSig' = 0
    /\ open' = open \cup {ph}
    /\ UNCHANGED << inflight, MARKET_ADDRESS, lmVars, idAge, fmVars, envVars, payerMint,
                    ataExists, waited, lastEnded, ataHist, lastError >>

\* console.log(`Cycle ${cycle++}`); await buySol(0.01, 0.01)
startBot_buy ==
    /\ pc = "cycle"
    /\ cycle' = Min(cycle + 1, MaxCycle)
    /\ EnterPhase("buy")

\* await sellSol(100, 0.01)
startBot_sell ==
    /\ pc = "sell_call"
    /\ UNCHANGED cycle
    /\ EnterPhase("sell")

\* time passes while the pacing timer is pending
Tick ==
    /\ pc = "sleep"
    /\ waited < PACE_MS
    /\ waited' = waited + TickMs
    /\ idAge' = Aged(idAge)
    /\ UNCHANGED << pc, inflight, cycle, phase, i, MARKET_ADDRESS, lmVars, fmVars,
                    envVars, payerMint, ataExists, phaseCnt, phaseHist, ataHist,
                    lastError >>

\* a millisecond boundary passes while a ledger call is in flight
ClockTick ==
    /\ inflight = 1
    /\ idAge = 0
    /\ idAge' = Aged(idAge)
    /\ UNCHANGED << pc, inflight, cycle, phase, i, MARKET_ADDRESS, lmVars, fmVars,
                    envVars, payerMint, ataExists, waited, phaseCnt, phaseHist,
                    ataHist, lastError >>

\* await new Promise(r => setTimeout(r, 6000)) resolves
startBot_timer ==
    /\ pc = "sleep"
    /\ TimerDue(waited)
    /\ pc' = NextCall(phase)
    /\ UNCHANGED << inflight, cycle, phase, i, MARKET_ADDRESS, lmVars, idAge, fmVars,
                    envVars, payerMint, ataExists, waited, phaseCnt, phaseHist,
                    ataHist, lastError >>

\* a handler that lets the call in flight finish before it exits
SuspendedAndIdle == inflight = 0

\* a signal handler runs only between turns of the event loop: the chain is
\* suspended on a ledger call in flight or on the pacing timer
Suspended == inflight = 1 \/ pc = "sleep"

\* process.on('SIGINT', () => process.exit(0))
SIGINT ==
    /\ pc \notin {"returned", "exited", "crashed"}
    /\ Suspended
    /\ pc' = "exited"
    /\ exitPc' = pc
    /\ UNCHANGED << inflight, cycle, phase, i, MARKET_ADDRESS, lmVars, idAge, fmVars,
                    ledger, faults, possibleSizes, caller, payerMint, ataExists, waited, phaseCnt, phaseHist,
                    ataHist, lastError >>

\* ------------------------------------------------------------ buySol / sellSol
\* for (let i = 0; i < retries; i++) { try { const market = await loadMarket(); ...
\* loadMarket begins: if (!MARKET_ADDRESS) findMarkets() is called
PhaseLoop ==
    /\ pc = "attempt"
    /\ IF InRetryRange(i)
       THEN /\ attempts' = attempts + 1
            /\ IF NeedsResolve(MARKET_ADDRESS)
               THEN /\ pc' = "fm_scan"
                    /\ resolves' = resolves + 1
                    /\ allMarkets' = << >>
                    /\ sizeIdx' = 1
                    /\ probeIdx' = 0
                    /\ probed' = << >>
                    /\ fmResult' = NoResult
                    /\ scanLog' = << >>
               ELSE /\ pc' = "lm_info"
                    /\ UNCHANGED << resolves, fmVars >>
       ELSE /\ pc' = "phase_ret"
            /\ UNCHANGED << attempts, resolves, fmVars >>
    /\ market' = NoMarket
    /\ accountInfo' = "none"
    /\ UNCHANGED << inflight, cycle, phase, i, MARKET_ADDRESS, idAge, envVars, payerMint,
                    ataExists, waited, orders, creates, sigs, firstSig, phaseHist,
                    ataHist, lastError >>

\* buySol / sellSol returns to startBot, which sets the pacing timer
PhaseReturn ==
    /\ pc = "phase_ret"
    /\ pc' = "sleep"
    /\ open' = open \ {phase}
    /\ lastEnded' = phase
    /\ waited' = 0
    /\ UNCHANGED << inflight, cycle, phase, i, MARKET_ADDRESS, lmVars, idAge, fmVars,
                    envVars, payerMint, ataExists, phaseCnt, ataHist, lastError >>

\* ------------------------------------------------------------ findMarkets
\* the local variables of the running findMarkets call
Locals == [allMarkets |-> allMarkets, sizeIdx |-> sizeIdx, probeIdx |-> probeIdx,
           probed |-> probed, scanLog |-> scanLog]

\* no findMarkets call is running
NoLocals == [allMarkets |-> << >>, sizeIdx |-> 0, probeIdx |-> 0,
             probed |-> << >>, scanLog |-> << >>]

SetLocals(l) ==
    /\ allMarkets' = l.allMarkets
    /\ sizeIdx' = l.sizeIdx
    /\ probeIdx' = l.probeIdx
    /\ probed' = l.probed
    /\ scanLog' = l.scanLog

\* findMarkets ends with res, its locals being l: the harness keeps the result
\* and looks at the locals; loadMarket assigns MARKET_ADDRESS = await
\* findMarkets(), or rethrows to the phase's catch, and the locals are gone
FmEnd(res, l) ==
    /\ fmResult' = res
    /\ IF caller = "harness"
       THEN /\ pc' = "fm_done"
            /\ SetLocals(l)
            /\ UNCHANGED << i, waited, lastError, MARKET_ADDRESS >>
       ELSE /\ SetLocals(NoLocals)
            /\ IF res.status = "found"
               THEN /\ MARKET_ADDRESS' = res.address
                    /\ Goto("lm_info")
               ELSE /\ ThrowToPhase(res.status)
                    /\ UNCHANGED MARKET_ADDRESS

FmStay(p, l) == Goto(p) /\ SetLocals(l) /\ UNCHANGED << fmResult, MARKET_ADDRESS >>

fmRest == << cycle, phase, lmVars, idAge, envVars, payerMint, ataExists, phaseCnt,
             phaseHist, ataHist >>

\* one getProgramAccounts call as findMarkets saw it: its dataSize filter
\* (Unfiltered for the scan without filters) and how many accounts it returned
\* (Threw when it threw)
Unfiltered == 0
Threw == -1
Scanned(filter, ok, accounts) ==
    [filter |-> filter, got |-> IF ok THEN Len(accounts) ELSE Threw]

\* for (let i = 0; i < Math.min(allMarkets.length, 20); i++): the loop is entered
\* at index k, or it is over and the function throws 'market not found'
ProbeLoop(k, l) ==
    IF InProbeRange(k, l.allMarkets)
    THEN FmStay("fm_probe", [l EXCEPT !.probeIdx = k])
    ELSE FmEnd([status |-> "NotFound", address |-> NoAddress],
               [l EXCEPT !.probeIdx = k])

\* await connection.getProgramAccounts(PROGRAM_ID, {filters: [{dataSize: size}]})
\* returns or throws (caught: nothing is added); after the last size the
\* candidates are probed, or the unfiltered scan is made when there are none
findMarkets_scan ==
    /\ Returned("fm_scan")
    /\ \E ok \in Outcomes :
         LET accounts == AccountsOfSize(possibleSizes[sizeIdx])
             acc == IF ok THEN allMarkets \o accounts ELSE allMarkets
             l == [Locals EXCEPT
                     !.allMarkets = acc,
                     !.scanLog = Append(scanLog,
                                   Scanned(possibleSizes[sizeIdx], ok, accounts))]
         IN IF ~ok /\ ScanFailedStep = "throw"
            THEN FmEnd([status |-> "ScanError", address |-> NoAddress], l)
            ELSE IF sizeIdx < Len(possibleSizes)
                 THEN FmStay("fm_scan", [l EXCEPT !.sizeIdx = sizeIdx + 1])
                 ELSE IF NeedsFallback(acc)
                      THEN FmStay("fm_fallback", l)
                      ELSE ProbeLoop(1, l)
    /\ UNCHANGED fmRest

\* allMarkets = await connection.getProgramAccounts(PROGRAM_ID, {commitment})
findMarkets_fallback ==
    /\ Returned("fm_fallback")
    /\ \E ok \in Outcomes :
         LET l == [Locals EXCEPT
                     !.scanLog = Append(scanLog, Scanned(Unfiltered, ok, AllAccounts))]
         IN IF ok
            THEN ProbeLoop(1, [l EXCEPT !.allMarkets = AllAccounts])
            ELSE FmEnd([status |-> "ScanError", address |-> NoAddress], l)
    /\ UNCHANGED fmRest

\* const market = await Market.load(connection, account.pubkey, ...): a target
\* pair returns the address; another pair, or a throw, goes on with the next i
findMarkets_probe ==
    /\ Returned("fm_probe")
    /\ LET account == allMarkets[probeIdx]
           m == MarketOf(ledger[account].kind)
           l == [Locals EXCEPT !.probed = Append(probed, m)]
       IN IF m # NoMarket /\ IsTargetPair(m)
          THEN FmEnd([status |-> "found", address |-> account], l)
          ELSE IF m = NoMarket /\ DecodeFailedStep = "throw"
               THEN FmEnd([status |-> "DecodeError", address |-> NoAddress], l)
               ELSE ProbeLoop(probeIdx + 1, l)
    /\ UNCHANGED fmRest

\* ------------------------------------------------------------ loadMarket
\* what getAccountInfo(MARKET_ADDRESS) may give: the account, null, or a throw
InfoOutcomes == IF faults THEN {"info", "absent", "throw"} ELSE {"info"}

\* const accountInfo = await connection.getAccountInfo(MARKET_ADDRESS);
\* if (!accountInfo) throw new Error('Market account not found on chain!')
loadMarket_getAccountInfo ==
    /\ Returned("lm_info")
    /\ \E r \in InfoOutcomes :
         CASE r = "info"   -> /\ accountInfo' = "info"
                              /\ Goto("lm_load")
                              /\ UNCHANGED MARKET_ADDRESS
           [] r = "absent" -> /\ accountInfo' = "absent"
                              /\ IF InfoMissingStep = "throw"
                                 THEN /\ ThrowToPhase("MarketVanished")
                                      /\ MARKET_ADDRESS' = CacheOnLoadFailure(MARKET_ADDRESS)
                                 ELSE Goto("lm_load") /\ UNCHANGED MARKET_ADDRESS
           [] OTHER        -> /\ accountInfo' = "none"
                              /\ ThrowToPhase("ReadError")
                              /\ MARKET_ADDRESS' = CacheOnLoadFailure(MARKET_ADDRESS)
    /\ UNCHANGED << cycle, phase, market, idAge, fmVars, envVars, payerMint,
                    ataExists, phaseCnt, phaseHist, ataHist >>

\* const market = await Market.load(connection, MARKET_ADDRESS, ...); return market;
\* then placeLimitOrder(market, side, ...) begins: payerMint, getOrCreate... is called
loadMarket_load ==
    /\ Returned("lm_load")
    /\ \E ok \in Outcomes :
         LET m == MarketOf(ledger[MARKET_ADDRESS].kind)
         IN IF ok /\ m # NoMarket
            THEN /\ market' = m
                 /\ payerMint' = PayerMint(phase)
                 /\ curCreates' = 0
                 /\ Goto("ata_info")
                 /\ UNCHANGED MARKET_ADDRESS
            ELSE /\ ThrowToPhase("LoadError")
                 /\ MARKET_ADDRESS' = CacheOnLoadFailure(MARKET_ADDRESS)
                 /\ UNCHANGED << market, payerMint, curCreates >>
    /\ UNCHANGED << cycle, phase, accountInfo, idAge, fmVars, envVars, ataExists,
                    phaseCnt, phaseHist, ataLast, prevCreates >>

\* ------------------------------------------------------------ getOrCreateAssociatedTokenAccount
\* the call for payerMint ends: returned the address, or threw
AtaCallEnds(how) ==
    /\ ataLast' = [ataLast EXCEPT ![payerMint] = how]
    /\ prevCreates' = [prevCreates EXCEPT ![payerMint] = curCreates]

\* const accountInfo = await connection.getAccountInfo(associatedTokenAddress);
\* if (accountInfo) return associatedTokenAddress;
getOrCreate_getAccountInfo ==
    /\ Returned("ata_info")
    /\ \E ok \in Outcomes :
         IF ok
         THEN IF AccountInfoPresent(payerMint)
              THEN Goto("place") /\ AtaCallEnds("returned")
              ELSE Goto("ata_create") /\ UNCHANGED << ataLast, prevCreates >>
         ELSE ThrowToPhase("ReadError") /\ AtaCallEnds("threw")
    /\ UNCHANGED << cycle, phase, MARKET_ADDRESS, lmVars, idAge, fmVars, envVars, payerMint,
                    ataExists, phaseCnt, phaseHist, curCreates >>

\* what sendAndConfirmTransaction may do: confirm; be rejected; or throw (a
\* confirmation timeout) although the transaction landed
SendOutcomes == IF faults THEN {"confirmed", "rejected", "lost"} ELSE {"confirmed"}

\* const signature = await sendAndConfirmTransaction(connection, transaction, [wallet]);
\* return associatedTokenAddress;
getOrCreate_send ==
    /\ Returned("ata_create")
    /\ \E r \in SendOutcomes :
         /\ ataExists' = IF r = "rejected" THEN ataExists
                         ELSE [ataExists EXCEPT ![payerMint] = TRUE]
         /\ IF r = "confirmed"
            THEN Goto("place") /\ AtaCallEnds("returned")
            ELSE IF CreateFailedStep = "throw"
                 THEN ThrowToPhase("CreateError") /\ AtaCallEnds("threw")
                 ELSE Goto("ata_create") /\ UNCHANGED << ataLast, prevCreates >>
    /\ UNCHANGED << cycle, phase, MARKET_ADDRESS, lmVars, idAge, fmVars, envVars, payerMint,
                    phaseCnt, phaseHist, curCreates >>

\* ------------------------------------------------------------ placeLimitOrder
\* const txSig = await market.placeOrder(connection, {...}); return txSig;
\* back in the phase: console.log('order sent'); return;
placeLimitOrder_placeOrder ==
    /\ Returned("place")
    /\ \E ok \in Outcomes :
         IF ok
         THEN /\ sigs' = sigs + 1
              /\ firstSig' = IF firstSig = 0 THEN i + 1 ELSE firstSig
              /\ pc' = OrderSentStep(i).pc
              /\ i' = OrderSentStep(i).i
              /\ waited' = 0
              /\ UNCHANGED lastError
         ELSE /\ ThrowToPhase("SubmitError")
              /\ UNCHANGED << sigs, firstSig >>
    /\ UNCHANGED << cycle, phase, MARKET_ADDRESS, lmVars, idAge, fmVars, envVars, payerMint,
                    ataExists, attempts, orders, creates, resolves, phaseHist,
                    ataHist >>

\* ------------------------------------------------------------ specifications
Program ==
    \/ Issue
    \/ startBot_getBalance
    \/ startBot_buy
    \/ startBot_sell
    \/ Tick
    \/ ClockTick
    \/ startBot_timer
    \/ PhaseLoop
    \/ PhaseReturn
    \/ findMarkets_scan
    \/ findMarkets_fallback
    \/ findMarkets_probe
    \/ loadMarket_getAccountInfo
    \/ loadMarket_load
    \/ getOrCreate_getAccountInfo
    \/ getOrCreate_send
    \/ placeLimitOrder_placeOrder

Next == Program \/ SIGINT

\* the bot on a ledger that may fail any call, with SIGINT possible whenever the
\* chain is suspended
Spec == Init /\ [][Next]_vars

\* the bot with no termination signal, every pending call or timer eventually served
LiveSpec == Init /\ [][Program]_vars /\ WF_vars(Program)

\* ------------------------------------------------------------ the resolver alone
\* fixture ledgers of n accounts.  Account a has the probed size number
\* ((a - 1) % 5) + 1 ("spread"), or a size that is not probed ("unprobed": a
\* size of 900 bytes), or, in "mixed", the first on odd and the second on even
\* addresses.  Accounts t1 and t2 (0: none) hold the target pair, t1 as k1 and
\* t2 reversed; of the others, odd addresses do not decode and even ones
\* decode to another pair.
FixtureLedger(n, shape, t1, k1, t2) ==
    [a \in 1..n |->
        [size |-> IF shape = "unprobed" \/ (shape = "mixed" /\ a % 2 = 0)
                  THEN 900
                  ELSE PossibleSizes[((a - 1) % Len(PossibleSizes)) + 1],
         kind |-> IF a = t1 THEN k1
                  ELSE IF a = t2 THEN "reversed"
                  ELSE IF a % 2 = 1 THEN "bad" ELSE "other"]]

\* ledgers with few accounts, and with about PROBE_CAP accounts
FixtureCounts == (0..2) \cup ((MaxAccounts - 2)..MaxAccounts)

FixtureLedgers ==
    { FixtureLedger(n, shape, t1, k1, t2) :
        n \in FixtureCounts, shape \in {"spread", "unprobed", "mixed"},
        t1 \in 0..MaxAccounts, k1 \in {"match", "reversed"}, t2 \in {0, MaxAccounts - 1} }

\* every order of the size-probe list
SizeOrders ==
    { [k \in 1..Len(PossibleSizes) |-> PossibleSizes[f[k]]] :
        f \in Permutations(1..Len(PossibleSizes)) }

\* a harness calls findMarkets() on a fixture ledger: its calls do not throw
\* under any order of the size-probe list; under the source's order its scans
\* may also throw
ResolverInit ==
    /\ InitProgram
    /\ pc = "fm_scan"
    /\ sizeIdx = 1
    /\ caller = "harness"
    /\ possibleSizes \in SizeOrders
    /\ ledger \in FixtureLedgers
    /\ ataExists = [m \in Mints |-> FALSE]
    /\ faults \in BOOLEAN
    /\ faults => possibleSizes = PossibleSizes

ResolverNext ==
    \/ Issue
    \/ findMarkets_scan
    \/ findMarkets_fallback
    \/ findMarkets_probe

SpecResolver == ResolverInit /\ [][ResolverNext]_vars

\* ------------------------------------------------------------ properties
\* positions inside one attempt of a phase
AttemptPcs == { "fm_scan", "fm_fallback", "fm_probe", "lm_info", "lm_load",
                "ata_info", "ata_create", "place" }
\* positions inside getOrCreateAssociatedTokenAccount
AtaPcs == { "ata_info", "ata_create" }
\* positions at which the phase function has returned to startBot
PhaseOverPcs == { "phase_ret", "sleep" }

\* C1 (retry ceiling): a phase in which no attempt returned a signature has
\* made exactly `retries` attempts when it returns, never more on the way, and
\* returns to startBot: no error leaves the phase.
C1_RetryCeiling ==
    /\ pc # "crashed"
    /\ attempts <= retries
    /\ (pc \in PhaseOverPcs /\ sigs = 0) => attempts = retries

C1_Witness ==
    /\ pc = "sleep" /\ phase = "buy"
    /\ sigs = 0 /\ attempts = retries /\ lastError = "SubmitError"

\* a program-account scan (filtered or unfiltered) goes out in this step
ScanIssued == pc \in {"fm_scan", "fm_fallback"} /\ inflight = 0 /\ inflight' = 1

\* C2 (cache write-once, scan side): once MARKET_ADDRESS holds an address, no
\* step issues a program-account scan.
C2_NoScanOnceCached == [][MARKET_ADDRESS # NoAddress => ~ScanIssued]_vars

\* a later loadMarket (a retry after a failed load) reads the cached address
C2_Witness ==
    /\ MARKET_ADDRESS # NoAddress
    /\ pc = "lm_info" /\ inflight = 1
    /\ i > 0 /\ resolves = 0 /\ lastError = "LoadError"

\* C3 as claimed: in a getOrCreateAssociatedTokenAccount call that follows
\* another for the same mint, the two calls together have issued at most one
\* creation transaction.  (The claim's second half, that the second call
\* issues none, implies this: one call issues at most one.)
C3_AtMostOneCreation ==
    (pc \in AtaPcs /\ ataLast[payerMint] # "none")
        => prevCreates[payerMint] + curCreates <= 1

\* C3 (provisioning idempotence), amended: in a call that follows a call for
\* the same mint that returned the address, no creation transaction is issued
\* and the read never finds the account absent; the two calls together issue
\* at most one.
C3_NoCreationAfterReturn ==
    (pc \in AtaPcs /\ ataLast[payerMint] = "returned")
        => /\ pc = "ata_info"
           /\ curCreates = 0
           /\ prevCreates[payerMint] + curCreates <= 1

\* the second call runs after a first call that created the account
C3_Witness ==
    /\ pc = "ata_info" /\ inflight = 1
    /\ ataLast[payerMint] = "returned" /\ prevCreates[payerMint] = 1

\* C4 (strict phase ordering): at most one ledger call is in flight and at
\* most one phase is open; while SELL is open the last phase that ended is
\* BUY, while BUY is open it is SELL (or none, for the first BUY).
C4_StrictPhaseOrder ==
    /\ inflight <= 1
    /\ Cardinality(open) <= 1
    /\ pc \in AttemptPcs => open = {phase}
    /\ "sell" \in open => lastEnded = "buy"
    /\ "buy" \in open => lastEnded \in {"none", "sell"}

\* the second cycle's BUY is running after the first cycle's SELL ended
C4_Witness ==
    /\ open = {"buy"} /\ lastEnded = "sell"
    /\ pc = "place" /\ inflight = 1 /\ i = 2

\* the trading loop has been entered and the process is alive
InLoop == pc \notin {"balance", "returned"}

\* C5 (loop liveness): once in the loop, a first attempt of BUY and a first
\* attempt of SELL always come again, whatever failed.
C5_LoopLive ==
    /\ InLoop ~> (pc = "attempt" /\ phase = "buy" /\ i = 0)
    /\ InLoop ~> (pc = "attempt" /\ phase = "sell" /\ i = 0)

\* a phase is entered after the phase before it exhausted its retries
C5_Witness ==
    /\ pc = "attempt" /\ phase = "sell" /\ i = 0
    /\ lastEnded = "buy" /\ lastError = "SubmitError" /\ cycle = MaxCycle

\* C6 (cycle pacing): during the first attempt of any phase but the very
\* first, at least PACE_MS of pacing delay have passed since the phase before
\* ended; during a retry, none has passed since the attempt before.
C6_Pacing ==
    pc \in AttemptPcs =>
        IF i = 0 THEN (lastEnded # "none" => waited >= PACE_MS)
        ELSE waited = 0

\* SELL's first attempt runs after an abandoned BUY and a full delay
C6_Witness ==
    /\ pc = "lm_info" /\ i = 0 /\ phase = "sell"
    /\ lastError = "CreateError" /\ waited >= PACE_MS /\ MARKET_ADDRESS # NoAddress

\* C7 (success ends the retry block): a phase holds at most one signature;
\* once it holds one no further attempt has begun; and a phase that is over
\* has made as many attempts as the index of its first success, or `retries`.
C7_SuccessEndsRetries ==
    /\ sigs <= 1
    /\ sigs = 1 => attempts = firstSig /\ pc \notin AttemptPcs
    /\ pc \in PhaseOverPcs =>
           attempts = (IF firstSig # 0 THEN firstSig ELSE retries)

\* a phase that succeeded at its second attempt
C7_Witness == pc = "sleep" /\ sigs = 1 /\ firstSig = 2 /\ attempts = 2

\* C8 (retry budget not multiplied): in a phase each attempt issues at most
\* one order submission, one account creation and one resolver run, so each
\* count stays within `retries`.
C8_RetryBudget ==
    /\ orders <= attempts /\ creates <= attempts /\ resolves <= attempts
    /\ orders <= retries /\ creates <= retries /\ resolves <= retries

\* a phase whose three attempts each sent a creation transaction that failed
C8_Witness ==
    /\ pc = "sleep" /\ creates = retries /\ orders = 0
    /\ lastError = "CreateError"

\* the account at this address holds a Market of the target pair, either way round
HoldsTargetPair(a) == ledger[a].kind \in {"match", "reversed"}

\* the candidates findMarkets may probe: the first PROBE_CAP of allMarkets
Probeable == 1..Min(Len(allMarkets), PROBE_CAP)

MatchingPositions == { k \in Probeable : HoldsTargetPair(allMarkets[k]) }

LowestOf(S) == CHOOSE k \in S : \A j \in S : k <= j

\* C9 (resolver result): a finished findMarkets call that had its candidates
\* returned the address at the lowest matching position among the first
\* PROBE_CAP, having decoded no candidate behind it; it failed with NotFound
\* exactly when there is no such position, and then decoded them all.
C9_ResolverResult ==
    (pc = "fm_done" /\ fmResult.status # "ScanError") =>
        IF MatchingPositions = {}
        THEN /\ fmResult.status = "NotFound"
             /\ Len(probed) = Cardinality(Probeable)
        ELSE /\ fmResult.status = "found"
             /\ fmResult.address = allMarkets[LowestOf(MatchingPositions)]
             /\ Len(probed) = LowestOf(MatchingPositions)

\* two matches within the cap behind candidates that are skipped: the first wins
C9_Witness ==
    /\ pc = "fm_done" /\ fmResult.status = "found"
    /\ Cardinality(MatchingPositions) = 2
    /\ Len(probed) > 2
    /\ Len(allMarkets) > PROBE_CAP

\* the accounts of the ledger that hold the target pair
TargetAccounts == { a \in 1..Len(ledger) : HoldsTargetPair(a) }

\* C10 (resolver determinism under fixture): on a ledger with exactly one
\* account of the target pair, under every order of the size-probe list,
\* findMarkets returns that account's address when it is among the first
\* PROBE_CAP accumulated candidates.
C10_OrderIndependent ==
    (pc = "fm_done" /\ Cardinality(TargetAccounts) = 1) =>
        \A k \in Probeable :
            allMarkets[k] \in TargetAccounts =>
                fmResult.status = "found" /\ fmResult.address = allMarkets[k]

\* a probe order other than the source's, the one match found behind the first place
C10_Witness ==
    /\ pc = "fm_done" /\ possibleSizes # PossibleSizes
    /\ Cardinality(TargetAccounts) = 1
    /\ fmResult.status = "found" /\ fmResult.address \in TargetAccounts
    /\ Len(probed) > 1 /\ Len(allMarkets) > PROBE_CAP

\* ------------------------------------------------------------ C11
\* the probe loop of findMarkets as a function of the decoded candidates ms
\* (NoMarket where Market.load throws), entered at index k: the index of the
\* candidate it returns, NotFoundAt when it throws 'market not found',
\* DecodeErrorAt when a decode failure ends it
NotFoundAt == 0
DecodeErrorAt == -1
RECURSIVE ProbeFrom(_, _)
ProbeFrom(ms, k) ==
    IF ~InProbeRange(k, ms)
    THEN NotFoundAt
    ELSE IF ms[k] # NoMarket /\ IsTargetPair(ms[k])
         THEN k
         ELSE IF ms[k] = NoMarket /\ DecodeFailedStep = "throw"
              THEN DecodeErrorAt
              ELSE ProbeFrom(ms, k + 1)

\* what findMarkets returns when the probe loop ends at index k of allMarkets
ResultAt(k) ==
    IF k = NotFoundAt THEN [status |-> "NotFound", address |-> NoAddress]
    ELSE IF k = DecodeErrorAt THEN [status |-> "DecodeError", address |-> NoAddress]
    ELSE [status |-> "found", address |-> allMarkets[k]]

\* the candidates as Market.load decodes them
CandidateMarkets ==
    [k \in 1..Len(allMarkets) |-> MarketOf(ledger[allMarkets[k]].kind)]

\* the Market with base and quote exchanged
Swapped(m) == [baseMint |-> m.quoteMint, quoteMint |-> m.baseMint]

\* the candidates with the Market at position j replaced by its reversal
SwapAt(ms, j) == [ms EXCEPT ![j] = Swapped(ms[j])]

\* C11 (orientation symmetry): replacing one candidate Market (base = X,
\* quote = Y) by the Market (base = Y, quote = X) at the same address and
\* position leaves the result of findMarkets as it is: the probe loop run on
\* the candidate list with any one decoded Market reversed ends with the
\* result the call returned.
C11_OrientationSymmetry ==
    (pc = "fm_done" /\ fmResult.status # "ScanError") =>
        \A j \in 1..Len(allMarkets) :
            CandidateMarkets[j] # NoMarket =>
                ResultAt(ProbeFrom(SwapAt(CandidateMarkets, j), 1)) = fmResult

\* the call returned a candidate matched in reversed orientation, found
\* behind a candidate that decoded to another pair
C11_Witness ==
    /\ pc = "fm_done" /\ fmResult.status = "found"
    /\ ledger[fmResult.address].kind = "reversed"
    /\ \E k \in 1..Len(probed) : probed[k] # NoMarket /\ probed[k].baseMint = OTHER_MINT

\* ------------------------------------------------------------ C12
\* C12 (funding side): for every Market the Loader returned, one matched in
\* reversed orientation included, placeLimitOrder funds a buy from the token
\* account of that Market's quote asset and a sell from the token account of
\* that Market's base asset.
C12_FundingSide ==
    pc \in {"ata_info", "ata_create", "place"} =>
        payerMint = (IF phase = "buy" THEN market.quoteMint ELSE market.baseMint)

\* ------------------------------------------------------------ C13
\* getAccountInfo(MARKET_ADDRESS) returns null
VanishedRead == pc = "lm_info" /\ inflight = 1 /\ accountInfo' = "absent"

\* C13 (vanished market account): when the account read at the cached address
\* returns no account, loadMarket fails there, before Market.load is called;
\* the attempt has submitted no order and submits none, the failure ends the
\* attempt as one iteration of the retry loop, and MARKET_ADDRESS keeps its value.
C13_VanishedMarket ==
    [][VanishedRead =>
         /\ pc' = "attempt" /\ i' = i + 1 /\ attempts' = attempts
         /\ lastError' = "MarketVanished"
         /\ market' = NoMarket
         /\ orders < attempts /\ orders' = orders
         /\ MARKET_ADDRESS # NoAddress /\ MARKET_ADDRESS' = MARKET_ADDRESS]_vars

\* the read of an address cached by an earlier phase came back empty, and the
\* retry loop has gone on to its second iteration
C13_Witness ==
    /\ accountInfo = "absent" /\ pc = "attempt"
    /\ lastError = "MarketVanished"
    /\ phase = "sell" /\ resolves = 0 /\ MARKET_ADDRESS # NoAddress
    /\ i = 1 /\ orders = 0

\* ------------------------------------------------------------ C14
\* the awaits on a ledger confirmation: sendAndConfirmTransaction, market.placeOrder
ConfirmationPcs == { "ata_create", "place" }

\* C14 (cancellation point), as claimed: a termination signal that arrives
\* while a ledger confirmation wait (account creation or order submission) is
\* in flight does not interrupt that wait: the process never exits with such
\* a wait still in flight.
C14_WaitNotInterrupted ==
    ~(pc = "exited" /\ exitPc \in ConfirmationPcs /\ inflight = 1)

\* C14, amended: the process exits at the suspension point where the chain
\* stands when the signal arrives, and at once: either the pacing timer was
\* pending, or a ledger call was in flight and is still in flight at the exit.
C14_ExitAtSuspension ==
    pc = "exited" =>
        \/ exitPc = "sleep" /\ inflight = 0
        \/ exitPc \in LedgerPcs /\ inflight = 1

\* the process exited while the confirmation of a submitted order was awaited
C14_Witness ==
    pc = "exited" /\ exitPc = "place" /\ inflight = 1 /\ orders = 1 /\ sigs = 0

\* ------------------------------------------------------------ C15
\* a findMarkets call made by loadMarket ends in this step without an address
ResolutionFailed ==
    fmResult.status = "none" /\ fmResult'.status \in {"NotFound", "ScanError"}

\* C15 (cache lifecycle): MARKET_ADDRESS is empty at start; it is assigned
\* only by a findMarkets call that returned an address, and gets that
\* address; a failed resolution leaves it empty and the next attempt scans
\* again; once non-empty it is never changed or cleared, failing loads included.
C15_CacheLifecycle ==
    /\ MARKET_ADDRESS = NoAddress
    /\ [][/\ MARKET_ADDRESS # NoAddress => MARKET_ADDRESS' = MARKET_ADDRESS
          /\ MARKET_ADDRESS' # MARKET_ADDRESS =>
                /\ pc = "fm_probe" /\ fmResult'.status = "found"
                /\ MARKET_ADDRESS' = fmResult'.address
                /\ MARKET_ADDRESS' # NoAddress
          /\ ResolutionFailed => MARKET_ADDRESS' = NoAddress /\ pc' = "attempt"
          /\ (pc = "attempt" /\ pc' # "attempt" /\ MARKET_ADDRESS = NoAddress
                /\ i < retries) => pc' = "fm_scan"]_vars

\* the cached address is still there after a load of it failed in a later phase
C15_Witness ==
    /\ MARKET_ADDRESS # NoAddress /\ resolves = 0 /\ phase = "sell"
    /\ lastError = "LoadError" /\ pc = "attempt" /\ i = 2

\* ------------------------------------------------------------ C16
\* the scans of the running (or just ended) findMarkets call, by kind
FilteredScans == { k \in 1..Len(scanLog) : scanLog[k].filter # Unfiltered }
UnfilteredScans == { k \in 1..Len(scanLog) : scanLog[k].filter = Unfiltered }

\* the size-filtered scans are all done and none of them returned a candidate
FilteredGaveNothing ==
    /\ Cardinality(FilteredScans) = Len(possibleSizes)
    /\ \A k \in FilteredScans : scanLog[k].got <= 0

\* the unfiltered scan of this call has been started
FallbackIssued == UnfilteredScans # {} \/ pc = "fm_fallback"

\* C16 (fallback scan): within one findMarkets call the unfiltered scan is
\* issued exactly when the size-filtered scans together accumulated zero
\* candidates; it is issued at most once, after the filtered scans, and never
\* when a filtered scan returned a candidate.
C16_FallbackScan ==
    /\ FallbackIssued <=> FilteredGaveNothing
    /\ Cardinality(UnfilteredScans) <= 1
    /\ pc = "fm_fallback" => UnfilteredScans = {}
    /\ \A k \in UnfilteredScans : k = Len(scanLog) /\ k = Len(possibleSizes) + 1
    /\ (\E k \in FilteredScans : scanLog[k].got > 0) => ~FallbackIssued

\* a call in which some filtered scans threw and the others returned nothing
\* made the unfiltered scan and found the market through it
C16_Witness ==
    /\ pc = "fm_done" /\ fmResult.status = "found"
    /\ UnfilteredScans # {}
    /\ \E k \in FilteredScans : scanLog[k].got = Threw
    /\ \E k \in FilteredScans : scanLog[k].got = 0

\* ------------------------------------------------------------ C17
\* market.placeOrder is called: clientOrderId: BigInt(Date.now()) is evaluated
OrderIdMinted == pc = "place" /\ inflight = 0 /\ inflight' = 1

\* C17 (client order identifier freshness): the clientOrderId of every
\* submission attempt of a run is different from, and not smaller than, the
\* one of the submission before it: when an identifier is taken, at least a
\* millisecond has passed on the clock since the last one was taken.
C17_FreshOrderIds == [][OrderIdMinted => idAge # 0]_vars

\* ------------------------------------------------------------ C18
\* getOrCreateAssociatedTokenAccount returns the address to placeLimitOrder
ProvisionReturns == pc \in AtaPcs /\ pc' = "place"

\* getOrCreateAssociatedTokenAccount ends with a throw
ProvisionThrows ==
    pc \in AtaPcs /\ inflight = 1 /\ inflight' = 0 /\ pc' \notin AtaPcs \cup {"place"}

\* market.placeOrder is called
OrderIssued == pc = "place" /\ inflight = 0 /\ inflight' = 1

\* C18 (provision before submit): in every attempt the order submission is
\* issued only after, in that same attempt, the funding account was read as
\* existing or its creation was confirmed; when the existence read or the
\* creation fails, the attempt submits no order and ends as one iteration of
\* the retry loop.
C18_ProvisionBeforeSubmit ==
    [][/\ pc' = "place" /\ pc # "place" => ProvisionReturns
       /\ ProvisionReturns =>
             /\ inflight = 1 /\ i' = i /\ attempts' = attempts
             /\ ataExists'[payerMint] /\ ataLast'[payerMint] = "returned"
             /\ IF pc = "ata_info" THEN ataExists[payerMint] ELSE curCreates >= 1
       /\ OrderIssued =>
             ataExists[payerMint] /\ ataLast[payerMint] = "returned"
       /\ ProvisionThrows =>
             /\ pc' = "attempt" /\ i' = i + 1 /\ attempts' = attempts
             /\ orders < attempts /\ orders' = orders]_vars

\* after an attempt that ended in a failed creation, the next attempt's
\* creation was confirmed and its order is being submitted
C18_Witness ==
    /\ pc = "place" /\ inflight = 1
    /\ i = 1 /\ lastError = "CreateError"
    /\ curCreates = 1 /\ creates = 2 /\ orders = 1

\* ------------------------------------------------------------ C19
\* a size-filtered getProgramAccounts call throws
FilteredScanThrew ==
    /\ pc = "fm_scan" /\ inflight = 1
    /\ Len(scanLog') = Len(scanLog) + 1
    /\ scanLog'[Len(scanLog')].got = Threw

\* the five size-filtered scans have all thrown
AllFilteredThrew ==
    /\ Len(scanLog) = Len(possibleSizes)
    /\ \A k \in 1..Len(scanLog) : scanLog[k].got = Threw

\* findMarkets ends in this step because a scan threw
EndsWithScanError == fmResult.status = "none" /\ fmResult'.status = "ScanError"

\* C19 (scan failure handling): a size-filtered scan that throws adds no
\* candidate and findMarkets goes on with the next size, or, after the last
\* size, with the fallback or the probing; when all five throw the unfiltered
\* scan is made; the only scan whose failure makes findMarkets fail is the
\* unfiltered one, and that failure leaves MARKET_ADDRESS empty.
C19_ScanFailures ==
    [][/\ FilteredScanThrew =>
             /\ allMarkets' = allMarkets
             /\ fmResult' = fmResult /\ lastError' = lastError /\ i' = i
             /\ IF sizeIdx < Len(possibleSizes)
                THEN pc' = "fm_scan" /\ sizeIdx' = sizeIdx + 1
                ELSE pc' = (IF allMarkets = << >> THEN "fm_fallback" ELSE "fm_probe")
       /\ (FilteredScanThrew /\ AllFilteredThrew') => pc' = "fm_fallback"
       /\ EndsWithScanError =>
             /\ pc = "fm_fallback"
             /\ MARKET_ADDRESS' = NoAddress
             /\ pc' = "attempt" /\ i' = i + 1]_vars

\* a filtered scan threw, a later one returned candidates, and they are probed
C19_Witness ==
    /\ pc = "fm_probe"
    /\ \E k, j \in 1..Len(scanLog) : k < j /\ scanLog[k].got = Threw /\ scanLog[j].got > 0
    /\ UnfilteredScans = {}

\* ------------------------------------------------------------ C20
\* the await of connection.getBalance ends, with a value or with a throw
BalanceQueryEnds == pc = "balance" /\ pc' \notin {"balance", "exited"}

\* C20 (startup gate): when the initial balance query fails, startBot
\* returns without entering the loop and nothing happens afterwards: no scan,
\* no account creation and no order submission is issued in that run; the loop
\* is entered only by the step in which the balance query succeeds.
C20_StartupGate ==
    [][/\ BalanceQueryEnds =>
             /\ inflight = 1 /\ inflight' = 0
             /\ IF lastError' = "BalanceError"
                THEN pc' = "returned"
                ELSE pc' = "cycle" /\ lastError' = "none"
       /\ pc' = "returned" =>
             /\ pc = "balance" /\ lastError' = "BalanceError"
             /\ phase' = "none" /\ cycle' = 1 /\ scanLog' = << >>
             /\ resolves' = 0 /\ creates' = 0 /\ orders' = 0 /\ idAge' = -1
       /\ pc = "returned" => FALSE
       /\ (phase = "none" /\ phase' # "none") =>
             pc = "cycle" /\ lastError = "none"]_vars

\* the balance query failed and startBot returned
C20_Witness ==
    /\ pc = "returned" /\ lastError = "BalanceError" /\ inflight = 0
    /\ phase = "none" /\ cycle = 1 /\ orders = 0 /\ creates = 0 /\ resolves = 0

=============================================================================
